---- MODULE Spec2Model ----
(***************************************************************************)
(* A model of the HTTP/3 client of http3/client.go: the do-once dial, the  *)
(* RoundTrip exchange with its cancellation watcher, the response that     *)
(* doRequest builds from the decoded header fields, the escalation of      *)
(* request errors to the stream or to the connection, the dispatchers of   *)
(* server-initiated unidirectional and bidirectional streams, and Close.   *)
(*                                                                         *)
(* Every goroutine of the program is a process of the model.  A Go select  *)
(* is modelled as the runtime executes it: a goroutine that reaches the    *)
(* select picks any case that is ready, and parks if none is; a parked     *)
(* goroutine is resumed by the first channel that fires, and runs that     *)
(* case.                                                                   *)
(***************************************************************************)
EXTENDS Integers, FiniteSets, Sequences, TLC

\* ---------------------------------------------------------------- bounds
NumReqs == 2        \* RoundTrip calls made on the client
MaxUniStreams == 2  \* unidirectional streams the server opens
MaxClose == 2       \* calls of Close
CfgMaxHeaderBytes == 2  \* a configured opts.MaxHeaderBytes
MaxBidiStreams == 2 \* bidirectional streams the server opens

Reqs == 1..NumReqs
UniIds == 1..MaxUniStreams
BidiIds == 1..MaxBidiStreams

\* ------------------------------------------------------- program constants
defaultMaxResponseHeaderBytes == 10485760
MethodGet0RTT == "GET_0RTT"
MethodGet == "GET"
MethodHead == "HEAD"
MethodConnect == "CONNECT"
Methods == {MethodGet0RTT, MethodGet}
AllMethods == Methods \cup {MethodHead, MethodConnect}

Nil == "nil"
NoCode == "0"     \* the zero value of an error code field

\* error codes named by client.go
errorNoError == "H3_NO_ERROR"
errorGeneralProtocolError == "H3_GENERAL_PROTOCOL_ERROR"
errorInternalError == "H3_INTERNAL_ERROR"
errorStreamCreationError == "H3_STREAM_CREATION_ERROR"
errorFrameUnexpected == "H3_FRAME_UNEXPECTED"
errorFrameError == "H3_FRAME_ERROR"
errorIDError == "H3_ID_ERROR"
errorSettingsError == "H3_SETTINGS_ERROR"
errorMissingSettings == "H3_MISSING_SETTINGS"
errorRequestCanceled == "H3_REQUEST_CANCELLED"
errorRequestIncomplete == "H3_REQUEST_INCOMPLETE"

\* error values RoundTrip can return
ErrWrongClient == "http3 client BUG: RoundTrip called for the wrong client"
ErrDial == "dial failed"
ErrCtx == "context canceled"
ErrConnClosed == "connection closed"
ErrIO == "stream i/o error"
ErrNotHeaders == "expected first frame to be a HEADERS frame"
ErrTooLarge == "HEADERS frame too large"
ErrDecode == "qpack decoding failed"
ErrStatus == "malformed non-numeric status pseudo header"

\* stream types read by handleUnidirectionalStreams
streamTypeControlStream == "control"
streamTypePushStream == "push"
streamTypeQPACKEncoderStream == "qpack-encoder"
streamTypeQPACKDecoderStream == "qpack-decoder"
streamTypeUnknown == "unknown"
StreamTypes == {streamTypeControlStream, streamTypePushStream,
                streamTypeQPACKEncoderStream, streamTypeQPACKDecoderStream,
                streamTypeUnknown}

VARIABLES
    opts,               \* roundTripperOpts: which options are configured
    dialOnce,           \* sync.Once: "fresh", "running" or "done"
    dialCount,          \* invocations of the dial function
    dialer,             \* the request whose context the dial runs under (0: none)
    conn,               \* the field c.conn
    handshakeErr,       \* the field c.handshakeErr
    handshakeComplete,  \* conn.HandshakeComplete() has fired
    connClosed,         \* the transport connection was closed
    lastClose,          \* the latest CloseWithError call: its code and reason
    setup,              \* the goroutine running setupConn
    pc,                 \* each RoundTrip call's position
    method0,            \* the method the request was submitted with
    method,             \* req.Method
    ctxDone,            \* req.Context() is cancelled
    str,                \* the request's stream was opened
    wire,               \* the method written on the request's stream
    rerr,               \* the requestError doRequest returned
    result,             \* the error RoundTrip returned ("ok" with a response)
    reqDone,            \* the reqDone channel is closed
    watcher,            \* the cancellation watcher goroutine's position
    wCancels,           \* codes passed to CancelWrite on the request's stream
    rCancels,           \* codes passed to CancelRead on the request's stream
    closeCount,         \* calls of Close that returned
    closeRet,           \* what the latest Close returned
    closeAt,            \* the state of dialOnce the latest Close was called in
    uniLoop,            \* the accept loop of handleUnidirectionalStreams
    uni,                \* the server's unidirectional streams and their handlers
    bidiLoop,           \* the accept loop of handleBidirectionalStreams
    bidi,               \* the server's bidirectional streams and their handlers
    hf,                 \* the first frame doRequest read from the stream
    headerBlock,        \* the length of the buffer doRequest made for the header
                        \* block and read into (-1: none was made)
    hfs,                \* the header fields doRequest decoded
    rsp                 \* the response doRequest returned

clientVars == <<opts, dialOnce, dialCount, dialer, conn, handshakeErr>>
connVars == <<handshakeComplete, connClosed, lastClose>>
rspVars == <<hf, headerBlock, hfs, rsp>>
reqVars == <<pc, method0, method, ctxDone, str, wire, rerr, result, rspVars>>
watchVars == <<reqDone, watcher, wCancels, rCancels>>
closeVars == <<closeCount, closeRet, closeAt>>
uniVars == <<uniLoop, uni>>
bidiVars == <<bidiLoop, bidi>>
vars ==
    <<clientVars, connVars, setup, reqVars, watchVars, closeVars, uniVars, bidiVars>>

\* the roundTripperOpts the client can be constructed with
Options ==
    [DisableCompression : BOOLEAN, EnableDatagram : BOOLEAN,
     MaxHeaderBytes : {-1, 0, CfgMaxHeaderBytes},
     StreamHijacker : BOOLEAN, UniStreamHijacker : BOOLEAN]

NoClose == [code |-> NoCode, reason |-> ""]
NoError == [err |-> Nil, streamErr |-> NoCode, connErr |-> NoCode]
NewUni ==
    [st |-> "closed", type |-> "", rCancels |-> {}, frame |-> "",
     SupportsDatagrams |-> FALSE]
NewBidi == [st |-> "closed", frame |-> ""]
NoFrame == [type |-> "", Length |-> 0]
NoHeaders ==
    [status |-> <<>>, TransferEncoding |-> <<>>, ContentLength |-> <<>>,
     ContentEncoding |-> <<>>]
NoResponse ==
    [StatusCode |-> 0, ContentLength |-> 0, Header |-> NoHeaders,
     Uncompressed |-> FALSE, Body |-> FALSE]

Init ==
    /\ opts \in Options
    /\ dialOnce = "fresh"
    /\ dialCount = 0
    /\ dialer = 0
    /\ conn = Nil
    /\ handshakeErr = Nil
    /\ handshakeComplete = FALSE
    /\ connClosed = FALSE
    /\ lastClose = NoClose
    /\ setup = "none"
    /\ pc = [r \in Reqs |-> "idle"]
    /\ method0 = [r \in Reqs |-> ""]
    /\ method = [r \in Reqs |-> ""]
    /\ ctxDone = [r \in Reqs |-> FALSE]
    /\ str = [r \in Reqs |-> FALSE]
    /\ wire = [r \in Reqs |-> ""]
    /\ rerr = [r \in Reqs |-> NoError]
    /\ result = [r \in Reqs |-> ""]
    /\ reqDone = [r \in Reqs |-> FALSE]
    /\ watcher = [r \in Reqs |-> "none"]
    /\ wCancels = [r \in Reqs |-> {}]
    /\ rCancels = [r \in Reqs |-> {}]
    /\ closeCount = 0
    /\ closeRet = ""
    /\ closeAt = ""
    /\ uniLoop = "none"
    /\ uni = [i \in UniIds |-> NewUni]
    /\ bidiLoop = "none"
    /\ bidi = [i \in BidiIds |-> NewBidi]
    /\ hf = [r \in Reqs |-> NoFrame]
    /\ headerBlock = [r \in Reqs |-> -1]
    /\ hfs = [r \in Reqs |-> NoHeaders]
    /\ rsp = [r \in Reqs |-> NoResponse]

\* conn.CloseWithError(code, reason)
CloseWithError(code, reason) ==
    /\ connClosed' = TRUE
    /\ lastClose' = [code |-> code, reason |-> reason]
    /\ UNCHANGED handshakeComplete

\* ------------------------------------------------------------ RoundTrip

\* RoundTrip is called with a request whose method is one of Ms: the check of
\* the request's authority
RoundTripCall(r, Ms) ==
    /\ pc[r] = "idle"
    /\ \E m \in Ms, hostOk \in BOOLEAN :
        /\ method0' = [method0 EXCEPT ![r] = m]
        /\ method' = [method EXCEPT ![r] = m]
        /\ IF hostOk
             THEN /\ pc' = [pc EXCEPT ![r] = "dialOnce"]
                  /\ UNCHANGED result
             ELSE /\ pc' = [pc EXCEPT ![r] = "returned"]
                  /\ result' = [result EXCEPT ![r] = ErrWrongClient]
    /\ UNCHANGED <<clientVars, connVars, setup, ctxDone, str, wire, rerr,
                   rspVars, watchVars, closeVars, uniVars, bidiVars>>

\* RoundTrip is called with a GET request, sent with 0-RTT or not
RoundTrip(r) == RoundTripCall(r, Methods)

\* RoundTrip is called with a request of any method
RoundTripAnyMethod(r) == RoundTripCall(r, AllMethods)

\* dialOnceDo without the Once: a caller dials unless a dial has already returned
dialWithoutOnce(r) ==
    /\ pc[r] = "dialOnce"
    /\ dialOnce # "done"
    /\ dialOnce' = "running"
    /\ dialCount' = dialCount + 1
    /\ dialer' = r
    /\ pc' = [pc EXCEPT ![r] = "dialing"]
    /\ UNCHANGED <<opts, conn, handshakeErr, connVars, setup, rspVars, method0, method,
                   ctxDone, str, wire, rerr, result, watchVars, closeVars, uniVars, bidiVars>>

\* c.dialOnce.Do: the first caller runs the function, which invokes the dialer
\* with the caller's context; the others wait until it has returned
dialOnceDo(r) ==
    /\ pc[r] = "dialOnce"
    /\ dialOnce = "fresh"
    /\ dialOnce' = "running"
    /\ dialCount' = dialCount + 1
    /\ dialer' = r
    /\ pc' = [pc EXCEPT ![r] = "dialing"]
    /\ UNCHANGED <<opts, conn, handshakeErr, connVars, setup, rspVars, method0, method,
                   ctxDone, str, wire, rerr, result, watchVars, closeVars, uniVars, bidiVars>>

\* what the dialer can return under the context of request r
DialOutcomes(r) == {"ok", ErrDial} \cup (IF ctxDone[r] THEN {ErrCtx} ELSE {})

\* the dialer returns: the rest of dial, and the end of dialOnce.Do
dial(r) ==
    /\ pc[r] = "dialing"
    /\ \E out \in DialOutcomes(r) :
        IF out = "ok"
          THEN /\ conn' = "conn"
               /\ handshakeErr' = Nil
               /\ setup' = "running"
               /\ bidiLoop' = IF opts.StreamHijacker THEN "accepting" ELSE bidiLoop
               /\ uniLoop' = "accepting"
          ELSE /\ conn' = Nil
               /\ handshakeErr' = out
               /\ UNCHANGED <<setup, bidiLoop, uniLoop>>
    /\ dialOnce' = "done"
    /\ pc' = [pc EXCEPT ![r] = "dialed"]
    /\ UNCHANGED <<opts, dialCount, dialer, connVars, rspVars, method0, method, ctxDone,
                   str, wire, rerr, result, watchVars, closeVars, uni, bidi>>

\* RoundTripAfterDial sending a 0-RTT request without rewriting its method
AfterDialKeepsMethod(r) ==
    /\ \/ pc[r] = "dialed"
       \/ pc[r] = "dialOnce" /\ dialOnce = "done"
    /\ IF handshakeErr # Nil
         THEN /\ result' = [result EXCEPT ![r] = handshakeErr]
              /\ pc' = [pc EXCEPT ![r] = "returned"]
         ELSE /\ pc' = [pc EXCEPT ![r] = IF method[r] = MethodGet0RTT
                                           THEN "open" ELSE "select"]
              /\ UNCHANGED result
    /\ UNCHANGED <<clientVars, connVars, setup, rspVars, method0, method, ctxDone, str,
                   wire, rerr, watchVars, closeVars, uniVars, bidiVars>>

\* after dialOnce.Do: the check of handshakeErr and of the request's method
RoundTripAfterDial(r) ==
    /\ \/ pc[r] = "dialed"
       \/ pc[r] = "dialOnce" /\ dialOnce = "done"
    /\ IF handshakeErr # Nil
         THEN /\ result' = [result EXCEPT ![r] = handshakeErr]
              /\ pc' = [pc EXCEPT ![r] = "returned"]
              /\ UNCHANGED method
         ELSE IF method[r] = MethodGet0RTT
           THEN /\ method' = [method EXCEPT ![r] = MethodGet]
                /\ pc' = [pc EXCEPT ![r] = "open"]
                /\ UNCHANGED result
           ELSE /\ pc' = [pc EXCEPT ![r] = "select"]
                /\ UNCHANGED <<method, result>>
    /\ UNCHANGED <<clientVars, connVars, setup, rspVars, method0, ctxDone, str, wire,
                   rerr, watchVars, closeVars, uniVars, bidiVars>>

\* a select with a default case: the request goes on when nothing is ready
HandshakeSelectNoWait(r) ==
    /\ pc[r] = "select"
    /\ LET ready == (IF handshakeComplete THEN {"handshake"} ELSE {})
                    \cup (IF ctxDone[r] THEN {"ctx"} ELSE {})
       IN IF ready = {}
            THEN pc' = [pc EXCEPT ![r] = "open"]
            ELSE \E c \in ready :
                   pc' = [pc EXCEPT ![r] = IF c = "ctx" THEN "ctxReturn" ELSE "open"]
    /\ UNCHANGED <<clientVars, connVars, setup, rspVars, method0, method, ctxDone, str,
                   wire, rerr, result, watchVars, closeVars, uniVars, bidiVars>>

\* the select on HandshakeComplete().Done() and req.Context().Done()
HandshakeSelect(r) ==
    /\ pc[r] = "select"
    /\ LET ready == (IF handshakeComplete THEN {"handshake"} ELSE {})
                    \cup (IF ctxDone[r] THEN {"ctx"} ELSE {})
       IN IF ready = {}
            THEN pc' = [pc EXCEPT ![r] = "parked"]
            ELSE \E c \in ready :
                   pc' = [pc EXCEPT ![r] = IF c = "ctx" THEN "ctxReturn" ELSE "open"]
    /\ UNCHANGED <<clientVars, connVars, setup, rspVars, method0, method, ctxDone, str,
                   wire, rerr, result, watchVars, closeVars, uniVars, bidiVars>>

\* the select's context case: return nil, req.Context().Err()
ReturnCtxErr(r) ==
    /\ pc[r] = "ctxReturn"
    /\ result' = [result EXCEPT ![r] = ErrCtx]
    /\ pc' = [pc EXCEPT ![r] = "returned"]
    /\ UNCHANGED <<clientVars, connVars, setup, rspVars, method0, method, ctxDone, str,
                   wire, rerr, watchVars, closeVars, uniVars, bidiVars>>

\* c.conn.OpenStreamSync(req.Context()), and on success the start of the watcher
OpenStreamOutcomes(r) ==
    (IF connClosed THEN {ErrConnClosed} ELSE {"ok"})
    \cup (IF ctxDone[r] THEN {ErrCtx} ELSE {})

OpenStreamSync(r) ==
    /\ pc[r] = "open"
    /\ \E out \in OpenStreamOutcomes(r) :
        IF out = "ok"
          THEN /\ str' = [str EXCEPT ![r] = TRUE]
               /\ watcher' = [watcher EXCEPT ![r] = "spawned"]
               /\ pc' = [pc EXCEPT ![r] = "doRequest"]
               /\ UNCHANGED result
          ELSE /\ result' = [result EXCEPT ![r] = out]
               /\ pc' = [pc EXCEPT ![r] = "returned"]
               /\ UNCHANGED <<str, watcher>>
    /\ UNCHANGED <<clientVars, connVars, setup, rspVars, method0, method, ctxDone, wire,
                   rerr, reqDone, wCancels, rCancels, closeVars, uniVars, bidiVars>>

\* ------------------------------------------------- the cancellation watcher

\* a watcher that waits for the context alone
watcherCasesCtxOnly == {"ctx"}

\* the cases of the watcher's select
watcherCases == {"ctx", "done"}

WatcherSelect(r) ==
    /\ watcher[r] = "spawned"
    /\ LET ready == (IF ctxDone[r] THEN {"ctx"} ELSE {})
                    \cup (IF reqDone[r] THEN {"done"} ELSE {})
           live == ready \cap watcherCases
       IN IF live = {}
            THEN watcher' = [watcher EXCEPT ![r] = "parked"]
            ELSE \E c \in live :
                   watcher' = [watcher EXCEPT
                                 ![r] = IF c = "ctx" THEN "cancelWrite" ELSE "exited"]
    /\ UNCHANGED <<clientVars, connVars, setup, reqVars, reqDone, wCancels,
                   rCancels, closeVars, uniVars, bidiVars>>

\* a watcher that cancels the write side and stops
WatcherCancelWriteOnly(r) ==
    /\ watcher[r] = "cancelWrite"
    /\ wCancels' = [wCancels EXCEPT ![r] = @ \cup {errorRequestCanceled}]
    /\ watcher' = [watcher EXCEPT ![r] = "exited"]
    /\ UNCHANGED <<clientVars, connVars, setup, reqVars, reqDone, rCancels,
                   closeVars, uniVars, bidiVars>>

\* str.CancelWrite(errorRequestCanceled)
WatcherCancelWrite(r) ==
    /\ watcher[r] = "cancelWrite"
    /\ wCancels' = [wCancels EXCEPT ![r] = @ \cup {errorRequestCanceled}]
    /\ watcher' = [watcher EXCEPT ![r] = "cancelRead"]
    /\ UNCHANGED <<clientVars, connVars, setup, reqVars, reqDone, rCancels,
                   closeVars, uniVars, bidiVars>>

\* str.CancelRead(errorRequestCanceled)
WatcherCancelRead(r) ==
    /\ watcher[r] = "cancelRead"
    /\ rCancels' = [rCancels EXCEPT ![r] = @ \cup {errorRequestCanceled}]
    /\ watcher' = [watcher EXCEPT ![r] = "exited"]
    /\ UNCHANGED <<clientVars, connVars, setup, reqVars, reqDone, wCancels,
                   closeVars, uniVars, bidiVars>>

\* close(reqDone): a watcher parked in its select resumes in the done case
closeReqDone(r) ==
    /\ reqDone' = [reqDone EXCEPT ![r] = TRUE]
    /\ watcher' = [watcher EXCEPT
                     ![r] = IF @ = "parked" /\ "done" \in watcherCases
                              THEN "exited" ELSE @]

\* the request's context is cancelled: a goroutine parked in a select on it
\* resumes in the context case
CancelCtx(r) ==
    /\ ~ctxDone[r]
    /\ \/ pc[r] \notin {"idle", "returned"}
       \/ watcher[r] \in {"spawned", "parked"}
    /\ ctxDone' = [ctxDone EXCEPT ![r] = TRUE]
    /\ pc' = [pc EXCEPT ![r] = IF @ = "parked" THEN "ctxReturn" ELSE @]
    /\ watcher' = [watcher EXCEPT
                     ![r] = IF @ = "parked" /\ "ctx" \in watcherCases
                              THEN "cancelWrite" ELSE @]
    /\ UNCHANGED <<clientVars, connVars, setup, rspVars, method0, method, str, wire, rerr,
                   result, reqDone, wCancels, rCancels, closeVars, uniVars, bidiVars>>

\* the handshake completes: every request parked in the select goes on
HandshakeCompletes ==
    /\ conn # Nil
    /\ ~handshakeComplete
    /\ ~connClosed
    /\ handshakeComplete' = TRUE
    /\ pc' = [r \in Reqs |-> IF pc[r] = "parked" THEN "open" ELSE pc[r]]
    /\ UNCHANGED <<clientVars, connClosed, lastClose, setup, rspVars, method0, method,
                   ctxDone, str, wire, rerr, result, watchVars, closeVars, uniVars, bidiVars>>

\* ------------------------------------------------------------- doRequest

newStreamError(code, err) == [err |-> err, streamErr |-> code, connErr |-> NoCode]
newConnError(code, err) == [err |-> err, streamErr |-> NoCode, connErr |-> code]

maxHeaderBytes ==
    IF opts.MaxHeaderBytes <= 0 THEN defaultMaxResponseHeaderBytes
                                ELSE opts.MaxHeaderBytes

\* what the peer and the transport do during one exchange: whether the request
\* can be written, the first frame read (or a read error), the length the HEADERS
\* frame declares, whether the header block can be read and decoded, and
\* whether its :status is numeric
HeaderLengths ==
    {0, CfgMaxHeaderBytes, CfgMaxHeaderBytes + 1,
     defaultMaxResponseHeaderBytes, defaultMaxResponseHeaderBytes + 1}
Exchanges ==
    LET all == [writeOk : BOOLEAN, frame : {"error", "HEADERS", "DATA"},
                Length : HeaderLengths, blockOk : BOOLEAN, decodeOk : BOOLEAN,
                statusOk : BOOLEAN]
    IN  \* what follows the step that fails is never looked at: one value stands
        \* for it
        {x \in all :
           /\ ~x.writeOk => x.frame = "error"
           /\ x.frame # "HEADERS" => x.Length = 0
           /\ x.Length = 0 /\ x.frame # "HEADERS" => ~x.blockOk
           \* io.ReadFull into a buffer of no bytes reads nothing and succeeds
           /\ x.Length = 0 /\ x.frame = "HEADERS" => x.blockOk
           /\ ~x.blockOk => ~x.decodeOk
           /\ ~x.decodeOk => ~x.statusOk}

\* a doRequest that classifies a first frame other than HEADERS as an error of
\* the stream
doRequestFrameOfStream(x) ==
    IF ~x.writeOk THEN newStreamError(errorInternalError, ErrIO)
    ELSE IF x.frame = "error" THEN newStreamError(errorFrameError, ErrIO)
    ELSE IF x.frame # "HEADERS" THEN newStreamError(errorFrameUnexpected, ErrNotHeaders)
    ELSE IF x.Length > maxHeaderBytes THEN newStreamError(errorFrameError, ErrTooLarge)
    ELSE IF ~x.blockOk THEN newStreamError(errorRequestIncomplete, ErrIO)
    ELSE IF ~x.decodeOk THEN newConnError(errorGeneralProtocolError, ErrDecode)
    ELSE IF ~x.statusOk THEN newStreamError(errorGeneralProtocolError, ErrStatus)
    ELSE NoError

\* the requestError doRequest returns for an exchange
doRequest(x) ==
    IF ~x.writeOk THEN newStreamError(errorInternalError, ErrIO)
    ELSE IF x.frame = "error" THEN newStreamError(errorFrameError, ErrIO)
    ELSE IF x.frame # "HEADERS" THEN newConnError(errorFrameUnexpected, ErrNotHeaders)
    ELSE IF x.Length > maxHeaderBytes THEN newStreamError(errorFrameError, ErrTooLarge)
    ELSE IF ~x.blockOk THEN newStreamError(errorRequestIncomplete, ErrIO)
    ELSE IF ~x.decodeOk THEN newConnError(errorGeneralProtocolError, ErrDecode)
    ELSE IF ~x.statusOk THEN newStreamError(errorGeneralProtocolError, ErrStatus)
    ELSE NoError

\* a doRequest that makes the buffer for the header block as soon as it has the
\* HEADERS frame, before the check of its length
makeHeaderBlockUnchecked(x) ==
    IF ~x.writeOk THEN -1
    ELSE IF x.frame # "HEADERS" THEN -1
    ELSE x.Length

\* the length of the buffer doRequest makes for the header block and reads
\* into, -1 when doRequest returns before it makes one
makeHeaderBlock(x) ==
    IF ~x.writeOk THEN -1
    ELSE IF x.frame # "HEADERS" THEN -1
    ELSE IF x.Length > maxHeaderBytes THEN -1
    ELSE x.Length

\* A header value is the sequence of its characters.
DigitValue ==
    ("0" :> 0) @@ ("1" :> 1) @@ ("2" :> 2) @@ ("3" :> 3) @@ ("4" :> 4) @@
    ("5" :> 5) @@ ("6" :> 6) @@ ("7" :> 7) @@ ("8" :> 8) @@ ("9" :> 9)

IsDigits(s) == Len(s) > 0 /\ \A i \in 1..Len(s) : s[i] \in DOMAIN DigitValue

RECURSIVE DigitsValue(_)
DigitsValue(s) ==
    IF s = <<>> THEN 0
    ELSE 10 * DigitsValue(SubSeq(s, 1, Len(s) - 1)) + DigitValue[s[Len(s)]]

\* strconv.ParseInt(s, 10, 64): an optional sign, then decimal digits and nothing
\* else (the values of the model are too short to leave the range of 64 bits)
ParseInt(s) ==
    LET signed == Len(s) > 0 /\ s[1] \in {"+", "-"}
        digits == IF signed THEN Tail(s) ELSE s
    IN  IF IsDigits(digits)
          THEN [ok |-> TRUE,
                val |-> IF s[1] = "-" THEN 0 - DigitsValue(digits)
                                      ELSE DigitsValue(digits)]
          ELSE [ok |-> FALSE, val |-> 0]

\* strconv.Atoi(s)
Atoi(s) == ParseInt(s)

\* the values of the :status fields and of the Content-Length fields a peer sends
StatusValues ==
    {<<"1", "0", "0">>, <<"2", "0", "0">>, <<"2", "0", "4">>, <<"3", "0", "0">>,
     <<"o", "k">>}
LengthValues == {<<"0">>, <<"1", "7">>, <<"-", "1">>, <<"1", "x">>}
ContentLengths ==
    {<<>>} \cup {<<v>> : v \in LengthValues}
           \cup {<< <<"1", "0">>, <<"2", "0">> >>}

\* the header fields the decoder can return: under each name the values of the
\* fields of that name, in their order
HeaderFields ==
    [status : {<<>>} \cup {<<v>> : v \in StatusValues},
     TransferEncoding : {<<>>, <<"chunked">>},
     ContentLength : ContentLengths,
     ContentEncoding : {<<>>, <<"gzip">>}]

\* a response of status 200 without further fields, and one whose status is
\* not a number
PlainHeaders ==
    {[NoHeaders EXCEPT !.status = <<v>>] : v \in {<<"2", "0", "0">>, <<"o", "k">>}}

\* the Accept-Encoding and Range headers of the request
RequestHeaders == [AcceptEncoding : {"", "br"}, Range : {"", "bytes=0-9"}]
PlainRequestHeaders == {[AcceptEncoding |-> "", Range |-> ""]}

\* http.Header.Get: the first value under a name, "" without one
Get(values) == IF values = <<>> THEN "" ELSE values[1]

\* the loop over the decoded fields finds every :status field to be a number
statusOk(h) == \A i \in 1..Len(h.status) : Atoi(h.status[i]).ok

\* the fields the decoder returns in exchange x, out of the fields H: there are
\* none when doRequest returns before it has decoded the header block
DecodedFields(x, H) ==
    IF doRequest(x).err \in {Nil, ErrStatus}
      THEN {h \in H : statusOk(h) = x.statusOk}
      ELSE {NoHeaders}

\* doRequest asks for gzip for a request of method m with the headers q
requestGzip(m, q) ==
    /\ ~opts.DisableCompression
    /\ m # MethodHead
    /\ q.AcceptEncoding = ""
    /\ q.Range = ""

\* a doRequest that takes the first Content-Length field when there are several
responseFirstLength(m, q, h) ==
    LET StatusCode ==
            IF h.status = <<>> THEN 0 ELSE Atoi(h.status[Len(h.status)]).val
        excluded ==
            \/ h.TransferEncoding # <<>>
            \/ StatusCode >= 100 /\ StatusCode < 200
            \/ StatusCode = 204
            \/ m = MethodConnect /\ StatusCode >= 200 /\ StatusCode < 300
        clens == h.ContentLength
        gzip == requestGzip(m, q) /\ Get(h.ContentEncoding) = "gzip"
    IN  [StatusCode |-> StatusCode,
         ContentLength |->
             IF gzip THEN -1
             ELSE IF excluded THEN 0
             ELSE IF Len(clens) >= 1 /\ ParseInt(clens[1]).ok
               THEN ParseInt(clens[1]).val
               ELSE -1,
         Header |-> IF gzip
                      THEN [h EXCEPT !.status = <<>>, !.ContentEncoding = <<>>,
                                     !.ContentLength = <<>>]
                      ELSE [h EXCEPT !.status = <<>>],
         Uncompressed |-> gzip,
         Body |-> TRUE]

\* the response doRequest builds from the decoded fields h for a request of
\* method m with the headers q
response(m, q, h) ==
    LET StatusCode ==
            IF h.status = <<>> THEN 0 ELSE Atoi(h.status[Len(h.status)]).val
        hasTransferEncoding == h.TransferEncoding # <<>>
        isInformational == StatusCode >= 100 /\ StatusCode < 200
        isNoContent == StatusCode = 204
        isSuccessfulConnect ==
            m = MethodConnect /\ StatusCode >= 200 /\ StatusCode < 300
        clens == h.ContentLength
        ContentLength ==
            IF ~hasTransferEncoding /\ ~isInformational /\ ~isNoContent
               /\ ~isSuccessfulConnect
              THEN IF Len(clens) = 1 /\ ParseInt(clens[1]).ok
                     THEN ParseInt(clens[1]).val
                     ELSE -1
              ELSE 0
        gzip == requestGzip(m, q) /\ Get(h.ContentEncoding) = "gzip"
    IN  IF gzip
          THEN [StatusCode |-> StatusCode,
                ContentLength |-> -1,
                Header |-> [h EXCEPT !.status = <<>>, !.ContentEncoding = <<>>,
                                     !.ContentLength = <<>>],
                Uncompressed |-> TRUE,
                Body |-> TRUE]
          ELSE [StatusCode |-> StatusCode,
                ContentLength |-> ContentLength,
                Header |-> [h EXCEPT !.status = <<>>],
                Uncompressed |-> FALSE,
                Body |-> TRUE]

\* rsp, rerr := c.doRequest(req, str, reqDone) for an exchange out of X with
\* decoded fields out of H and request headers out of Q; without an error
\* RoundTrip returns the response, whose body holds reqDone
RoundTripExchange(r, X, H, Q) ==
    /\ pc[r] = "doRequest"
    /\ \E x \in X, q \in Q :
        \E h \in DecodedFields(x, H) :
            /\ rerr' = [rerr EXCEPT ![r] = doRequest(x)]
            /\ wire' = [wire EXCEPT ![r] = IF x.writeOk THEN method[r] ELSE @]
            /\ hf' = [hf EXCEPT ![r] = IF x.writeOk /\ x.frame # "error"
                                         THEN [type |-> x.frame, Length |-> x.Length]
                                         ELSE @]
            /\ headerBlock' = [headerBlock EXCEPT ![r] = makeHeaderBlock(x)]
            /\ hfs' = [hfs EXCEPT ![r] = h]
            /\ IF doRequest(x).err = Nil
                 THEN /\ rsp' = [rsp EXCEPT ![r] = response(method[r], q, h)]
                      /\ result' = [result EXCEPT ![r] = "ok"]
                      /\ pc' = [pc EXCEPT ![r] = "returned"]
                 ELSE /\ pc' = [pc EXCEPT ![r] = "closeDone"]
                      /\ UNCHANGED <<rsp, result>>
    /\ UNCHANGED <<clientVars, connVars, setup, method0, method, ctxDone, str,
                   watchVars, closeVars, uniVars, bidiVars>>

\* the exchanges of the requests whose responses are plain: the header block is
\* empty, cut short or too large
PlainExchanges ==
    {x \in Exchanges :
        /\ x.Length \in {0, CfgMaxHeaderBytes, defaultMaxResponseHeaderBytes + 1}
        /\ x.Length = CfgMaxHeaderBytes => ~x.blockOk}

\* an exchange with a plain response
RoundTripPlainExchange(r) ==
    RoundTripExchange(r, PlainExchanges, PlainHeaders, PlainRequestHeaders)

\* an exchange with any response
RoundTripDoRequest(r) ==
    RoundTripExchange(r, Exchanges, HeaderFields, RequestHeaders)

\* on an error: close(reqDone)
RoundTripCloseDone(r) ==
    /\ pc[r] = "closeDone"
    /\ closeReqDone(r)
    /\ pc' = [pc EXCEPT ![r] = "escalate"]
    /\ UNCHANGED <<clientVars, connVars, setup, rspVars, method0, method, ctxDone, str,
                   wire, rerr, result, wCancels, rCancels, closeVars, uniVars, bidiVars>>

\* RoundTripEscalate closing the connection on every error, whatever its scope
EscalateAlwaysCloses(r) ==
    /\ pc[r] = "escalate"
    /\ wCancels' = [wCancels EXCEPT
                      ![r] = IF rerr[r].streamErr # NoCode
                               THEN @ \cup {rerr[r].streamErr} ELSE @]
    /\ IF rerr[r].err # Nil
         THEN CloseWithError(IF rerr[r].connErr # NoCode THEN rerr[r].connErr
                                                         ELSE rerr[r].streamErr,
                             rerr[r].err)
         ELSE UNCHANGED connVars
    /\ result' = [result EXCEPT ![r] = rerr[r].err]
    /\ pc' = [pc EXCEPT ![r] = "returned"]
    /\ UNCHANGED <<clientVars, setup, rspVars, method0, method, ctxDone, str, wire, rerr,
                   reqDone, watcher, rCancels, closeVars, uniVars, bidiVars>>

\* on an error: CancelWrite for a stream error, CloseWithError for a connection
\* error, and the return of the error
RoundTripEscalate(r) ==
    /\ pc[r] = "escalate"
    /\ wCancels' = [wCancels EXCEPT
                      ![r] = IF rerr[r].streamErr # NoCode
                               THEN @ \cup {rerr[r].streamErr} ELSE @]
    /\ IF rerr[r].connErr # NoCode
         THEN CloseWithError(rerr[r].connErr, rerr[r].err)
         ELSE UNCHANGED connVars
    /\ result' = [result EXCEPT ![r] = rerr[r].err]
    /\ pc' = [pc EXCEPT ![r] = "returned"]
    /\ UNCHANGED <<clientVars, setup, rspVars, method0, method, ctxDone, str, wire, rerr,
                   reqDone, watcher, rCancels, closeVars, uniVars, bidiVars>>

\* the response body of a returned response is read to its end or closed: it
\* closes reqDone
BodyDone(r) ==
    /\ pc[r] = "returned"
    /\ result[r] = "ok"
    /\ ~reqDone[r]
    /\ closeReqDone(r)
    /\ UNCHANGED <<clientVars, connVars, setup, reqVars, wCancels, rCancels,
                   closeVars, uniVars, bidiVars>>

\* the response body meets an unexpected frame: the callback doRequest gave it
\* closes the connection, and the failed read closes reqDone
BodyFrameError(r) ==
    /\ pc[r] = "returned"
    /\ result[r] = "ok"
    /\ ~reqDone[r]
    /\ CloseWithError(errorFrameUnexpected, "")
    /\ closeReqDone(r)
    /\ UNCHANGED <<clientVars, setup, reqVars, wCancels, rCancels, closeVars,
                   uniVars, bidiVars>>

\* ------------------------------------------------------ setupConn and Close

\* the goroutine dial starts: setupConn, and CloseWithError when it fails
setupConn ==
    /\ setup = "running"
    /\ setup' = "done"
    /\ \E ok \in BOOLEAN :
        IF ok THEN UNCHANGED connVars
              ELSE CloseWithError(errorInternalError, "")
    /\ UNCHANGED <<clientVars, reqVars, watchVars, closeVars, uniVars, bidiVars>>

\* Close without the check of c.conn
CloseUnchecked ==
    /\ closeCount < MaxClose
    /\ closeCount' = closeCount + 1
    /\ closeAt' = dialOnce
    /\ closeRet' \in {Nil, ErrConnClosed}
    /\ CloseWithError(errorNoError, "")
    /\ UNCHANGED <<clientVars, setup, reqVars, watchVars, uniVars, bidiVars>>

\* Close: nothing is done without a connection; with one, CloseWithError, whose
\* result Close returns
Close ==
    /\ closeCount < MaxClose
    /\ closeCount' = closeCount + 1
    /\ closeAt' = dialOnce
    /\ IF conn = Nil
         THEN /\ closeRet' = Nil
              /\ UNCHANGED connVars
         ELSE /\ closeRet' \in {Nil, ErrConnClosed}
              /\ CloseWithError(errorNoError, "")
    /\ UNCHANGED <<clientVars, setup, reqVars, watchVars, uniVars, bidiVars>>

\* ------------------------------------------- handleUnidirectionalStreams

\* c.conn.AcceptUniStream: the next stream the server opened, or an error once
\* the connection is closed, which ends the loop
AcceptUniStream ==
    /\ uniLoop = "accepting"
    /\ IF connClosed
         THEN /\ uniLoop' = "exited"
              /\ UNCHANGED uni
         ELSE /\ \E i \in UniIds :
                   /\ uni[i].st = "closed"
                   /\ \A j \in UniIds : j < i => uni[j].st # "closed"
                   /\ uni' = [uni EXCEPT ![i].st = "readType"]
              /\ UNCHANGED uniLoop
    /\ UNCHANGED <<clientVars, connVars, setup, reqVars, watchVars, closeVars,
                   bidiVars>>

\* a dispatcher that answers an unrecognized stream type as it answers a push
\* stream: by closing the connection
UnknownTypeClosesConn(i) ==
    /\ uni[i].st = "readType"
    /\ \E t \in StreamTypes \cup {"error"} :
        /\ uni' = [uni EXCEPT
                     ![i].type = t,
                     ![i].st = IF t = streamTypeControlStream
                                 THEN "control" ELSE "done"]
        /\ IF t \in {streamTypePushStream, streamTypeUnknown}
             THEN CloseWithError(errorIDError, "")
             ELSE UNCHANGED connVars
    /\ UNCHANGED <<clientVars, setup, reqVars, watchVars, closeVars, uniLoop,
                   bidiVars>>

\* the goroutine of an accepted stream: the stream type is read and dispatched
handleUniStreamType(i) ==
    /\ uni[i].st = "readType"
    /\ \E t \in StreamTypes \cup {"error"} :
        /\ uni' = [uni EXCEPT
                     ![i].type = t,
                     ![i].st = IF t = streamTypeControlStream
                                 THEN "control" ELSE "done",
                     ![i].rCancels =
                         IF t \in {"error", streamTypeControlStream,
                                   streamTypeQPACKEncoderStream,
                                   streamTypeQPACKDecoderStream,
                                   streamTypePushStream}
                           THEN @ ELSE @ \cup {errorStreamCreationError}]
        /\ IF t = streamTypePushStream
             THEN CloseWithError(errorIDError, "")
             ELSE UNCHANGED connVars
    /\ UNCHANGED <<clientVars, setup, reqVars, watchVars, closeVars, uniLoop,
                   bidiVars>>

\* what parseNextFrame can return on the control stream: a read error, the
\* hijacked outcome (only a configured hijacker can claim a frame), a SETTINGS
\* frame with or without the datagram flag, or another frame
ControlFrames ==
    {"error", "SETTINGS", "SETTINGS+datagram", "DATA"}
    \cup (IF opts.UniStreamHijacker THEN {"hijacked"} ELSE {})

\* the control stream: one frame is parsed
handleControlStream(i) ==
    /\ uni[i].st = "control"
    /\ \E f \in ControlFrames :
        /\ uni' = [uni EXCEPT ![i].frame = f,
                               ![i].st = IF f = "SETTINGS+datagram"
                                           THEN "datagram" ELSE "done"]
        /\ IF f = "error"
             THEN CloseWithError(errorFrameError, "")
             ELSE IF f = "DATA"
               THEN CloseWithError(errorMissingSettings, "")
               ELSE UNCHANGED connVars
    /\ UNCHANGED <<clientVars, setup, reqVars, watchVars, closeVars, uniLoop,
                   bidiVars>>

\* a handler that asks for the transport's datagram support whether or not the
\* client enabled datagrams
DatagramSettingUnasked(i) ==
    /\ uni[i].st = "datagram"
    /\ handshakeComplete
    /\ \E SupportsDatagrams \in BOOLEAN :
        /\ uni' = [uni EXCEPT ![i].st = "done",
                               ![i].SupportsDatagrams = SupportsDatagrams]
        /\ IF ~SupportsDatagrams
             THEN CloseWithError(errorSettingsError, "missing QUIC Datagram support")
             ELSE UNCHANGED connVars
    /\ UNCHANGED <<clientVars, setup, reqVars, watchVars, closeVars, uniLoop,
                   bidiVars>>

\* the control stream's SETTINGS flag datagram support: when the client enabled
\* datagrams it asks ConnectionState(), which blocks until the handshake is
\* complete, what the transport negotiated
handleDatagramSetting(i) ==
    /\ uni[i].st = "datagram"
    /\ IF opts.EnableDatagram
         THEN /\ handshakeComplete
              /\ \E SupportsDatagrams \in BOOLEAN :
                   /\ uni' = [uni EXCEPT ![i].st = "done",
                                          ![i].SupportsDatagrams = SupportsDatagrams]
                   /\ IF ~SupportsDatagrams
                        THEN CloseWithError(errorSettingsError,
                                            "missing QUIC Datagram support")
                        ELSE UNCHANGED connVars
         ELSE /\ uni' = [uni EXCEPT ![i].st = "done"]
              /\ UNCHANGED connVars
    /\ UNCHANGED <<clientVars, setup, reqVars, watchVars, closeVars, uniLoop,
                   bidiVars>>

\* --------------------------------------------- handleBidirectionalStreams

\* c.conn.AcceptStream: the next stream the server opened, whose goroutine is
\* started, or an error once the connection is closed, which ends the loop
AcceptStream ==
    /\ bidiLoop = "accepting"
    /\ IF connClosed
         THEN /\ bidiLoop' = "exited"
              /\ UNCHANGED bidi
         ELSE /\ \E i \in BidiIds :
                   /\ bidi[i].st = "closed"
                   /\ \A j \in BidiIds : j < i => bidi[j].st # "closed"
                   /\ bidi' = [bidi EXCEPT ![i].st = "read"]
              /\ UNCHANGED bidiLoop
    /\ UNCHANGED <<clientVars, connVars, setup, reqVars, watchVars, closeVars,
                   uniVars>>

\* what parseNextFrame can return on a bidirectional stream: a frame, an error
\* (of the read, of the hijacker, or for a frame nobody claims), or the hijacked
\* outcome; on a closed connection every read fails
BidiFrames == IF connClosed THEN {"error"} ELSE {"frame", "error", "hijacked"}

\* a goroutine that does not look for the hijacked outcome
BidiFrameUnlooked(i) ==
    /\ bidi[i].st = "read"
    /\ \E f \in BidiFrames : bidi' = [bidi EXCEPT ![i].frame = f, ![i].st = "close"]
    /\ UNCHANGED <<clientVars, connVars, setup, reqVars, watchVars, closeVars,
                   uniVars, bidiLoop>>

\* the goroutine of an accepted stream parses the next frame, and returns when
\* the hijacker took the stream over
handleBidiStreamFrame(i) ==
    /\ bidi[i].st = "read"
    /\ \E f \in BidiFrames :
        bidi' = [bidi EXCEPT ![i].frame = f,
                             ![i].st = IF f = "hijacked" THEN "exited" ELSE "close"]
    /\ UNCHANGED <<clientVars, connVars, setup, reqVars, watchVars, closeVars,
                   uniVars, bidiLoop>>

\* the goroutine closes the connection and goes round its loop
handleBidiStreamClose(i) ==
    /\ bidi[i].st = "close"
    /\ CloseWithError(errorFrameUnexpected,
                      "received HTTP/3 frame on bidirectional stream")
    /\ bidi' = [bidi EXCEPT ![i].st = "read"]
    /\ UNCHANGED <<clientVars, setup, reqVars, watchVars, closeVars, uniVars,
                   bidiLoop>>

\* ------------------------------------------------------- specifications

\* the steps of RoundTrip calls, of their watchers and of their response bodies
RequestNext ==
    \/ \E r \in Reqs : RoundTrip(r)
    \/ \E r \in Reqs : dialOnceDo(r)
    \/ \E r \in Reqs : dial(r)
    \/ \E r \in Reqs : RoundTripAfterDial(r)
    \/ \E r \in Reqs : HandshakeSelect(r)
    \/ \E r \in Reqs : ReturnCtxErr(r)
    \/ \E r \in Reqs : OpenStreamSync(r)
    \/ \E r \in Reqs : RoundTripPlainExchange(r)
    \/ \E r \in Reqs : RoundTripCloseDone(r)
    \/ \E r \in Reqs : RoundTripEscalate(r)
    \/ \E r \in Reqs : WatcherSelect(r)
    \/ \E r \in Reqs : WatcherCancelWrite(r)
    \/ \E r \in Reqs : WatcherCancelRead(r)
    \/ \E r \in Reqs : BodyDone(r)
    \/ \E r \in Reqs : BodyFrameError(r)
    \/ \E r \in Reqs : CancelCtx(r)

\* the steps of the connection: the handshake, setupConn and Close
ConnNext ==
    \/ HandshakeCompletes
    \/ setupConn
    \/ Close

\* the steps of the dispatcher of unidirectional streams
DispatchNext ==
    \/ AcceptUniStream
    \/ \E i \in UniIds : handleUniStreamType(i)
    \/ \E i \in UniIds : handleControlStream(i)
    \/ \E i \in UniIds : handleDatagramSetting(i)

\* the steps of the calls in Rs up to the end of the dial
DialSteps(Rs) ==
    \/ \E r \in Rs : RoundTrip(r)
    \/ \E r \in Rs : dialOnceDo(r)
    \/ \E r \in Rs : dial(r)

\* the steps of RoundTrip calls up to OpenStreamSync
DialNext ==
    \/ DialSteps(Reqs)
    \/ \E r \in Reqs : RoundTripAfterDial(r)
    \/ \E r \in Reqs : HandshakeSelect(r)
    \/ \E r \in Reqs : ReturnCtxErr(r)
    \/ \E r \in Reqs : CancelCtx(r)
    \/ HandshakeCompletes

\* the steps of the dispatcher of bidirectional streams
BidiNext ==
    \/ AcceptStream
    \/ \E i \in BidiIds : handleBidiStreamFrame(i)
    \/ \E i \in BidiIds : handleBidiStreamClose(i)

Next == RequestNext \/ ConnNext \/ DispatchNext \/ BidiNext

Spec == Init /\ [][Next]_vars

\* the requests of a client: the server opens no unidirectional stream and
\* Close is not called
InitRequests ==
    /\ Init
    /\ ~opts.DisableCompression
    /\ ~opts.EnableDatagram
    /\ opts.MaxHeaderBytes = 0
    /\ ~opts.StreamHijacker
    /\ ~opts.UniStreamHijacker

SpecRequests ==
    InitRequests /\ [][RequestNext \/ HandshakeCompletes \/ setupConn]_vars

\* the goroutines of the watchers are scheduled: a watcher that can take a step
\* takes it in the end
WatcherFairness ==
    \A r \in Reqs :
        /\ WF_vars(WatcherSelect(r))
        /\ WF_vars(WatcherCancelWrite(r))
        /\ WF_vars(WatcherCancelRead(r))

FairRequests ==
    InitRequests /\ [][RequestNext \/ HandshakeCompletes]_vars /\ WatcherFairness

\* the dispatcher of a dialed client, and Close
InitDispatch ==
    /\ Init
    /\ ~opts.DisableCompression
    /\ opts.MaxHeaderBytes = 0
    /\ ~opts.StreamHijacker

\* one RoundTrip call brings the connection about
Dialers == {r \in Reqs : r <= 1}

SpecDispatch ==
    InitDispatch /\ [][DialSteps(Dialers) \/ ConnNext \/ DispatchNext]_vars

\* the calls of RoundTrip from their start to OpenStreamSync
SpecDial == InitRequests /\ [][DialNext]_vars

\* the dispatcher of bidirectional streams of a dialed client, and Close
InitBidi ==
    /\ Init
    /\ ~opts.DisableCompression
    /\ ~opts.EnableDatagram
    /\ opts.MaxHeaderBytes = 0
    /\ ~opts.UniStreamHijacker

SpecBidi == InitBidi /\ [][DialSteps(Dialers) \/ ConnNext \/ BidiNext]_vars

\* the goroutines of the accepted streams are scheduled: one that can take a
\* step takes it in the end
BidiFairness ==
    \A i \in BidiIds :
        /\ WF_vars(handleBidiStreamFrame(i))
        /\ WF_vars(handleBidiStreamClose(i))

FairBidi == SpecBidi /\ BidiFairness

\* one request of any method and its exchange with any response, for a client
\* of any header budget, with or without compression
InitExchange ==
    /\ Init
    /\ ~opts.EnableDatagram
    /\ ~opts.StreamHijacker
    /\ ~opts.UniStreamHijacker

ExchangeNext ==
    \/ \E r \in Dialers : RoundTripAnyMethod(r)
    \/ \E r \in Dialers : dialOnceDo(r)
    \/ \E r \in Dialers : dial(r)
    \/ \E r \in Dialers : RoundTripAfterDial(r)
    \/ \E r \in Dialers : HandshakeSelect(r)
    \/ \E r \in Dialers : OpenStreamSync(r)
    \/ \E r \in Dialers : RoundTripDoRequest(r)
    \/ \E r \in Dialers : RoundTripCloseDone(r)
    \/ \E r \in Dialers : RoundTripEscalate(r)
    \/ HandshakeCompletes

SpecExchange == InitExchange /\ [][ExchangeNext]_vars

\* ------------------------------------------------------------------ claims

\* the request passed RoundTrip's check of its authority and went past dialOnce.Do
PastDial(r) == pc[r] \notin {"idle", "dialOnce"} /\ result[r] # ErrWrongClient

\* C1 (dial-once): whatever the number and the interleaving of the RoundTrip
\* calls, the dial function is invoked at most once, and exactly once as soon as
\* one call has gone past dialOnce.Do; if that dial failed, no call gets beyond
\* the check of handshakeErr, every call that returned (the later ones too)
\* returned the dial's error, and nothing was dialed again.  (A call for the wrong
\* authority fails RoundTrip's precondition and returns before dialOnce.Do.)
C1_DialOnce ==
    /\ dialCount <= 1
    /\ \A r \in Reqs : PastDial(r) => dialCount = 1
    /\ \A r \in Reqs : PastDial(r) /\ pc[r] # "dialing" => dialOnce = "done"
    /\ handshakeErr # Nil =>
         \A r \in Reqs :
            /\ PastDial(r) => pc[r] \in {"dialing", "dialed", "returned"}
            /\ pc[r] = "returned" /\ result[r] # ErrWrongClient
                 => result[r] = handshakeErr

\* every call was made, the one dial failed, and all calls returned its error
C1_Witness ==
    /\ dialCount = 1
    /\ handshakeErr = ErrDial
    /\ \A r \in Reqs : pc[r] = "returned" /\ result[r] = ErrDial

\* C2 (cancellation isolation): a request whose own context is never cancelled
\* does not fail with a context error and has neither side of its stream
\* cancelled with the request-canceled code, whatever the other requests'
\* contexts do
C2_CancellationIsolation ==
    \A r \in Reqs :
        ~ctxDone[r] =>
            /\ result[r] # ErrCtx
            /\ errorRequestCanceled \notin wCancels[r] \cup rCancels[r]

\* RoundTrip's escalation of request r's error, as one step
Escalates(r) == pc[r] = "escalate" /\ pc'[r] = "returned"

\* C3 (error escalation scope): the requestError of an exchange never carries a
\* stream code and a connection code together.  RoundTrip's escalation returns
\* the error to the caller; for a stream-scoped error it adds that code to the
\* CancelWrite calls of the request's own stream and touches nothing else: no
\* CancelRead, no other request's stream, no close of the connection; for a
\* connection-scoped error it calls CloseWithError with that code and the
\* error's message.
C3_EscalationScope ==
    /\ [](\A r \in Reqs : rerr[r].streamErr = NoCode \/ rerr[r].connErr = NoCode)
    /\ [][\A r \in Reqs : Escalates(r) =>
            /\ result'[r] = rerr[r].err
            /\ rerr[r].streamErr # NoCode =>
                 /\ wCancels' = [wCancels EXCEPT ![r] = @ \cup {rerr[r].streamErr}]
                 /\ rCancels' = rCancels
                 /\ connClosed' = connClosed
                 /\ lastClose' = lastClose
            /\ rerr[r].connErr # NoCode =>
                 /\ connClosed'
                 /\ lastClose' = [code |-> rerr[r].connErr, reason |-> rerr[r].err]
                 /\ wCancels' = wCancels
                 /\ rCancels' = rCancels]_vars

\* a request returned a stream-scoped error with its write side cancelled, the
\* connection is open, and another request is about to open its stream and can
C3_Witness ==
    \E r, q \in Reqs :
        /\ pc[r] = "returned"
        /\ result[r] = ErrTooLarge
        /\ wCancels[r] = {errorFrameError}
        /\ ~connClosed
        /\ pc[q] = "open"
        /\ "ok" \in OpenStreamOutcomes(q)

\* C4 (watcher termination): a RoundTrip that started a watcher and returned an
\* error has closed reqDone; a watcher is never parked in its select once
\* reqDone is closed; and once reqDone is closed (by RoundTrip on an error, or by
\* the response body) the watcher terminates, whether or not the request's
\* context is ever cancelled
C4_WatcherTerminates ==
    /\ [](\A r \in Reqs :
            /\ pc[r] = "returned" /\ str[r] /\ result[r] # "ok" => reqDone[r]
            /\ reqDone[r] => watcher[r] # "parked")
    /\ \A r \in Reqs : (watcher[r] # "none" /\ reqDone[r]) ~> (watcher[r] = "exited")

\* the response body closed reqDone and the watcher is gone, with the request's
\* context never cancelled
C4_Witness ==
    \E r \in Reqs :
        /\ result[r] = "ok"
        /\ reqDone[r]
        /\ ~ctxDone[r]
        /\ watcher[r] = "exited"

\* both sides of request r's stream were cancelled with the request-canceled code
BothCancelled(r) ==
    /\ errorRequestCanceled \in wCancels[r]
    /\ errorRequestCanceled \in rCancels[r]

\* C5 as claimed (cancel aborts both halves): once the stream is open, the
\* context cancelled and reqDone not closed, the watcher cancels both sides
C5_CancelAbortsBoth ==
    \A r \in Reqs : (str[r] /\ ctxDone[r] /\ ~reqDone[r]) ~> BothCancelled(r)

\* C5 as amended: once the stream is open, the context cancelled and reqDone not
\* closed, the watcher cancels both sides unless reqDone is closed before the
\* watcher has taken the context case of its select; a watcher parked in the
\* select when the context is cancelled takes that case, and a watcher that took
\* it cancels both sides; the request-canceled code reaches no stream but that
\* of a request whose context is cancelled, and the watcher's cancels touch no
\* other stream and not the connection
C5_CancelAbortsBothUnlessDone ==
    /\ \A r \in Reqs :
         (str[r] /\ ctxDone[r] /\ ~reqDone[r]) ~> (BothCancelled(r) \/ reqDone[r])
    /\ \A r \in Reqs :
         (watcher[r] \in {"cancelWrite", "cancelRead"}) ~> BothCancelled(r)
    /\ [][\A r \in Reqs :
            watcher[r] = "parked" /\ ~ctxDone[r] /\ ctxDone'[r]
                => watcher'[r] = "cancelWrite"]_vars
    /\ [](\A r \in Reqs :
            errorRequestCanceled \in wCancels[r] \cup rCancels[r] => ctxDone[r])
    /\ [][\A r \in Reqs :
            watcher[r] \in {"cancelWrite", "cancelRead"} /\ watcher'[r] # watcher[r]
                => /\ \A q \in Reqs \ {r} :
                        wCancels'[q] = wCancels[q] /\ rCancels'[q] = rCancels[q]
                   /\ connClosed' = connClosed
                   /\ lastClose' = lastClose]_vars

\* the context was cancelled while reqDone was open, and the watcher cancelled
\* both sides of the stream
C5_Witness ==
    \E r \in Reqs :
        /\ str[r]
        /\ ctxDone[r]
        /\ ~reqDone[r]
        /\ watcher[r] = "exited"
        /\ BothCancelled(r)

\* C6 (0-RTT fast path): a request submitted with GET_0RTT never enters the
\* select on the handshake signal, and the method written on its stream is GET
C6_ZeroRTT ==
    \A r \in Reqs :
        method0[r] = MethodGet0RTT =>
            /\ pc[r] \notin {"select", "parked", "ctxReturn"}
            /\ wire[r] \in {"", MethodGet}

\* a GET_0RTT request opened its stream and wrote GET on it while the handshake
\* was not complete
C6_Witness ==
    \E r \in Reqs :
        /\ method0[r] = MethodGet0RTT
        /\ str[r]
        /\ wire[r] = MethodGet
        /\ ~handshakeComplete

\* C7 (handshake gate): a request submitted with another method neither reaches
\* OpenStreamSync nor has a stream before the handshake signal has fired; when
\* its context is cancelled while it is parked in the select it takes the
\* context case, and that case returns the context's error with no stream
\* opened, no stream cancelled and the connection not closed
C7_HandshakeGate ==
    /\ [](\A r \in Reqs :
            /\ method0[r] # MethodGet0RTT /\ (str[r] \/ pc[r] = "open")
                 => handshakeComplete
            /\ pc[r] = "ctxReturn" => ctxDone[r] /\ ~str[r])
    /\ [][\A r \in Reqs :
            /\ pc[r] = "parked" /\ ~ctxDone[r] /\ ctxDone'[r]
                 => pc'[r] = "ctxReturn"
            /\ pc[r] = "ctxReturn" /\ pc'[r] # "ctxReturn"
                 => /\ pc'[r] = "returned"
                    /\ result'[r] = ErrCtx
                    /\ str' = str
                    /\ wCancels' = wCancels
                    /\ rCancels' = rCancels
                    /\ connClosed' = connClosed
                    /\ lastClose' = lastClose]_vars

\* the dial succeeded, the handshake has not completed, and a GET request
\* returned its context's error without a stream
C7_Witness ==
    \E r \in Reqs :
        /\ method0[r] = MethodGet
        /\ handshakeErr = Nil
        /\ ~handshakeComplete
        /\ pc[r] = "returned"
        /\ result[r] = ErrCtx
        /\ ~str[r]

\* the handler of stream i reads an unrecognized stream type in this step
ReadsUnknownType(i) ==
    /\ uni[i].st = "readType"
    /\ uni'[i].st # "readType"
    /\ uni'[i].type = streamTypeUnknown

\* C8 (unrecognized stream type, no hijacker): with no UniStreamHijacker, the
\* handler that reads an unrecognized type calls CancelRead on that stream with
\* the stream-creation-error code and ends; the step leaves the connection, every
\* other unidirectional stream, the requests' streams and the accept loop as
\* they are; and the accept loop ends only when the connection is closed
C8_UnknownStreamCancelled ==
    /\ [][\A i \in UniIds :
            ~opts.UniStreamHijacker /\ ReadsUnknownType(i) =>
                /\ uni'[i].rCancels = {errorStreamCreationError}
                /\ uni'[i].st = "done"
                /\ \A j \in UniIds \ {i} : uni'[j] = uni[j]
                /\ UNCHANGED <<connVars, uniLoop, str, wCancels, rCancels>>]_vars
    /\ [](uniLoop = "exited" => connClosed)
    /\ [](\A i \in UniIds :
            ~opts.UniStreamHijacker /\ uni[i].type = streamTypeUnknown
                => uni[i].rCancels = {errorStreamCreationError})

\* without a hijacker an unrecognized stream was cancelled, the connection is
\* open, and a later stream has been accepted
C8_Witness ==
    \E i, j \in UniIds :
        /\ ~opts.UniStreamHijacker
        /\ i < j
        /\ uni[i].type = streamTypeUnknown
        /\ uni[i].rCancels = {errorStreamCreationError}
        /\ uni[j].st = "readType"
        /\ uniLoop = "accepting"
        /\ ~connClosed

\* C9 as claimed (unrecognized stream type, hijacker configured): with a
\* UniStreamHijacker, a stream of an unrecognized type is not cancelled with the
\* stream-creation-error code
C9_UnknownStreamHijacked ==
    \A i \in UniIds :
        opts.UniStreamHijacker /\ uni[i].type = streamTypeUnknown
            => errorStreamCreationError \notin uni[i].rCancels

\* a call of Close returns in this step
CloseReturns == closeCount' = closeCount + 1

\* C10 (Close): a Close that finds no connection returns nil and calls nothing
\* on the transport, the first time and the second; a client that never dialed
\* has no connection and no CloseWithError was ever called for it; a Close that
\* finds the connection calls CloseWithError with the no-error code
C10_Close ==
    /\ [][CloseReturns =>
            IF conn = Nil
              THEN /\ closeRet' = Nil
                   /\ UNCHANGED <<connVars, clientVars, setup, uniVars>>
              ELSE /\ connClosed'
                   /\ lastClose' = [code |-> errorNoError, reason |-> ""]]_vars
    /\ [](dialOnce = "fresh" => conn = Nil /\ ~connClosed /\ lastClose = NoClose)

\* Close was called twice on a client that never dialed
C10_Witness ==
    /\ dialOnce = "fresh"
    /\ closeCount = 2
    /\ closeRet = Nil
    /\ ~connClosed

\* the header budget a client is configured with
HeaderBudget == IF opts.MaxHeaderBytes > 0 THEN opts.MaxHeaderBytes ELSE 10485760

\* C11 (header budget): for every HEADERS frame read as the first frame of a
\* response, if its declared length exceeds the budget (the configured cap, or
\* 10,485,760 when the cap is unset or not positive) no buffer is made for the
\* header block and nothing of it is read, the exchange fails with a stream
\* error and no connection error, no response is returned and the connection
\* is not closed; if the length is within the budget the buffer made has
\* exactly the declared length
C11_HeaderBudget ==
    \A r \in Reqs :
        hf[r].type = "HEADERS" =>
            IF hf[r].Length > HeaderBudget
              THEN /\ headerBlock[r] = -1
                   /\ rerr[r].err = ErrTooLarge
                   /\ rerr[r].streamErr # NoCode
                   /\ rerr[r].connErr = NoCode
                   /\ ~rsp[r].Body
                   /\ result[r] \in {"", ErrTooLarge}
                   /\ ~connClosed
                   /\ lastClose = NoClose
              ELSE headerBlock[r] = hf[r].Length

\* under a configured cap a HEADERS frame one byte over it was refused: the
\* request returned the error, its write side is cancelled, no buffer was made
\* and the connection is open
C11_Witness ==
    \E r \in Reqs :
        /\ opts.MaxHeaderBytes = CfgMaxHeaderBytes
        /\ hf[r] = [type |-> "HEADERS", Length |-> CfgMaxHeaderBytes + 1]
        /\ pc[r] = "returned"
        /\ result[r] = ErrTooLarge
        /\ wCancels[r] = {errorFrameError}
        /\ headerBlock[r] = -1
        /\ ~connClosed

\* C12 as claimed (Transfer-Encoding rule): a returned response whose decoded
\* fields hold a Transfer-Encoding field, and which is not decompressed, has the
\* content length -1
C12_TransferEncodingUnknown ==
    \A r \in Reqs :
        rsp[r].Body /\ hfs[r].TransferEncoding # <<>> /\ ~rsp[r].Uncompressed
            => rsp[r].ContentLength = -1

\* the status of request r's response leaves the content length unset: 1xx, 204,
\* or 2xx in answer to CONNECT
LengthlessStatus(r) ==
    \/ rsp[r].StatusCode >= 100 /\ rsp[r].StatusCode < 200
    \/ rsp[r].StatusCode = 204
    \/ method[r] = MethodConnect /\ rsp[r].StatusCode >= 200 /\ rsp[r].StatusCode < 300

\* request r's response takes its content length from its Content-Length field
LengthFromHeader(r) ==
    /\ hfs[r].TransferEncoding = <<>>
    /\ ~LengthlessStatus(r)
    /\ Len(hfs[r].ContentLength) = 1
    /\ ParseInt(hfs[r].ContentLength[1]).ok
    /\ ~rsp[r].Uncompressed

\* the content length of request r's response is the value of one of its
\* Content-Length fields
EqualsHeaderValue(r) ==
    \E i \in 1..Len(hfs[r].ContentLength) :
        /\ ParseInt(hfs[r].ContentLength[i]).ok
        /\ rsp[r].ContentLength = ParseInt(hfs[r].ContentLength[i]).val

\* C13 as claimed (Content-Length resolution): the content length of a returned
\* response equals a Content-Length value if and only if there is no
\* Transfer-Encoding field, the status is not 1xx, 204 or 2xx to CONNECT, there
\* is exactly one Content-Length field, it parses, and the response is not
\* decompressed
C13_ContentLengthIff ==
    \A r \in Reqs : rsp[r].Body => (EqualsHeaderValue(r) <=> LengthFromHeader(r))

\* C13 as amended: under those conditions the content length is the parsed
\* value of the one Content-Length field; otherwise it is a default that no
\* Content-Length value influences: -1 for a decompressed response and for one
\* with neither a Transfer-Encoding field nor such a status, the unset 0 for
\* such a status; so 204 with content-length 17 never reports 17, two values or
\* a malformed one give -1 under an ordinary status; and whatever the
\* Content-Length fields are, a response with a numeric status is returned
\* without an error
C13_ContentLengthResolution ==
    \A r \in Reqs :
        /\ rsp[r].Body =>
              /\ LengthFromHeader(r)
                    => rsp[r].ContentLength = ParseInt(hfs[r].ContentLength[1]).val
              /\ ~LengthFromHeader(r) => rsp[r].ContentLength \in {-1, 0}
              /\ rsp[r].Uncompressed => rsp[r].ContentLength = -1
              /\ ~LengthFromHeader(r) /\ hfs[r].TransferEncoding = <<>>
                 /\ ~LengthlessStatus(r)
                    => rsp[r].ContentLength = -1
              /\ LengthlessStatus(r) /\ ~rsp[r].Uncompressed
                    => rsp[r].ContentLength = 0
        /\ hfs[r].status # <<>> /\ statusOk(hfs[r])
              => rerr[r] = NoError /\ rsp[r].Body

\* a response of status 204 with content-length 17 was returned, and its
\* content length is not 17
C13_Witness ==
    \E r \in Reqs :
        /\ result[r] = "ok"
        /\ rsp[r].StatusCode = 204
        /\ hfs[r].ContentLength = << <<"1", "7">> >>
        /\ ~rsp[r].Uncompressed
        /\ rsp[r].ContentLength # 17

\* C14 (first response frame): when the request was written and the first frame
\* read from its stream is not a HEADERS frame, doRequest returns the
\* unexpected-frame code as a connection error and no stream error, makes no
\* buffer and returns no response; RoundTrip then cancels nothing on the stream
\* and, by the time it has returned the error, has closed the connection with
\* that code and the error's message
C14_FirstFrameNotHeaders ==
    \A r \in Reqs :
        hf[r].type \notin {"", "HEADERS"} =>
            /\ wire[r] # ""
            /\ rerr[r] = [err |-> ErrNotHeaders, streamErr |-> NoCode,
                          connErr |-> errorFrameUnexpected]
            /\ headerBlock[r] = -1
            /\ ~rsp[r].Body
            /\ wCancels[r] = {}
            /\ result[r] \in {"", ErrNotHeaders}
            /\ pc[r] = "returned" =>
                  /\ result[r] = ErrNotHeaders
                  /\ connClosed
                  /\ lastClose = [code |-> errorFrameUnexpected,
                                  reason |-> ErrNotHeaders]

\* a request was answered with a DATA frame first: it returned the error, and
\* the connection is closed with the unexpected-frame code
C14_Witness ==
    \E r \in Reqs :
        /\ hf[r].type = "DATA"
        /\ pc[r] = "returned"
        /\ result[r] = ErrNotHeaders
        /\ connClosed
        /\ lastClose.code = errorFrameUnexpected

\* C15 as claimed (watcher cancelled first on error): RoundTrip has closed
\* reqDone when it comes to cancel the write side or to close the connection,
\* and once reqDone is closed no step of the watcher cancels a side of the
\* request's stream
C15_WatcherCancelledFirst ==
    /\ [](\A r \in Reqs : pc[r] = "escalate" => reqDone[r])
    /\ [][\A r \in Reqs :
            reqDone[r] /\ watcher'[r] # watcher[r]
                => wCancels'[r] = wCancels[r] /\ rCancels'[r] = rCancels[r]]_vars

\* the handler of control stream i parses its one frame in this step
ParsesControlFrame(i) == uni[i].st = "control" /\ uni'[i].st # "control"

\* the handler of control stream i settles the datagram flag in this step
SettlesDatagram(i) == uni[i].st = "datagram" /\ uni'[i].st = "done"

\* C16 (control stream policy): when the one frame parsed on a control stream
\* is not a SETTINGS frame the connection is closed with the missing-settings
\* code; a SETTINGS frame itself leaves the connection as it is, and one that
\* flags datagram support makes the handler close the connection, with the
\* settings-error code, exactly when the client enabled datagrams and the
\* transport did not negotiate them; otherwise the connection is left as it is
C16_ControlStream ==
    [][\A i \in UniIds :
        /\ ParsesControlFrame(i) /\ uni'[i].frame = "DATA" =>
              /\ connClosed'
              /\ lastClose' = [code |-> errorMissingSettings, reason |-> ""]
        /\ ParsesControlFrame(i) /\ uni'[i].frame \in {"SETTINGS", "SETTINGS+datagram"}
              => UNCHANGED connVars
        /\ ParsesControlFrame(i) /\ uni'[i].frame = "SETTINGS" => uni'[i].st = "done"
        /\ SettlesDatagram(i) =>
              /\ uni[i].frame = "SETTINGS+datagram"
              /\ IF opts.EnableDatagram /\ ~uni'[i].SupportsDatagrams
                   THEN /\ connClosed'
                        /\ lastClose' =
                             [code |-> errorSettingsError,
                              reason |-> "missing QUIC Datagram support"]
                   ELSE UNCHANGED connVars]_vars

\* a control stream flagged datagram support to a client that enabled datagrams
\* over a transport that did not negotiate them: the connection is closed with
\* the settings-error code
C16_Witness ==
    \E i \in UniIds :
        /\ opts.EnableDatagram
        /\ uni[i].frame = "SETTINGS+datagram"
        /\ uni[i].st = "done"
        /\ ~uni[i].SupportsDatagrams
        /\ connClosed
        /\ lastClose.code = errorSettingsError

\* the goroutine of bidirectional stream i parses a frame in this step
ParsesBidiFrame(i) == bidi[i].st = "read" /\ bidi'[i].st # "read"

\* C17 (bidirectional stream policy): bidirectional streams are accepted only
\* by a client with a StreamHijacker; on an accepted stream every frame, and
\* every failed read, that does not end in the hijacked outcome brings the
\* goroutine to close the connection, which it does with the unexpected-frame
\* code; the hijacked outcome ends the goroutine with the connection as it is,
\* and a goroutine that ended closes nothing later
C17_BidiStreams ==
    /\ [](~opts.StreamHijacker =>
            bidiLoop = "none" /\ \A i \in BidiIds : bidi[i] = NewBidi)
    /\ [](\A i \in BidiIds : bidi[i].st = "exited" <=> bidi[i].frame = "hijacked")
    /\ [][\A i \in BidiIds :
            /\ ParsesBidiFrame(i) =>
                  /\ UNCHANGED connVars
                  /\ bidi'[i].st = IF bidi'[i].frame = "hijacked" THEN "exited"
                                                                   ELSE "close"
            /\ bidi[i].st = "close" /\ bidi'[i].st # "close" =>
                  /\ connClosed'
                  /\ lastClose' =
                       [code |-> errorFrameUnexpected,
                        reason |-> "received HTTP/3 frame on bidirectional stream"]
            /\ bidi[i].st = "exited" => bidi'[i] = bidi[i]]_vars

\* the hijacker took over the first stream, whose goroutine ended with the
\* connection open, and a frame on the second stream closed the connection
C17_Witness ==
    \E i, j \in BidiIds :
        /\ opts.StreamHijacker
        /\ i < j
        /\ bidi[i] = [st |-> "exited", frame |-> "hijacked"]
        /\ bidi[j] = [st |-> "read", frame |-> "frame"]
        /\ connClosed
        /\ lastClose.code = errorFrameUnexpected

\* the codes the taxonomy gives to the connection
ConnectionScoped ==
    {errorMissingSettings, errorFrameUnexpected, errorIDError, errorSettingsError,
     errorInternalError}

\* C18 as claimed (error-code scope): no connection-scoped code is passed to a
\* CancelWrite or a CancelRead of a stream, and no requestError carries one as
\* its stream code; so a failed write of the request is not escalated as a
\* cancel of the request's stream
C18_ErrorCodeScope ==
    /\ \A r \in Reqs :
         /\ (wCancels[r] \cup rCancels[r]) \cap ConnectionScoped = {}
         /\ rerr[r].streamErr \notin ConnectionScoped
    /\ \A i \in UniIds : uni[i].rCancels \cap ConnectionScoped = {}

\* C19 as claimed (the tasks of bidirectional streams end): once the connection
\* is closed, the goroutine of every accepted bidirectional stream ends
C19_BidiTaskTerminates ==
    \A i \in BidiIds :
        (bidi[i].st \in {"read", "close"} /\ connClosed) ~> (bidi[i].st = "exited")

\* C20 as claimed (Close and a dial in progress): when the latest Close was
\* called while the dial was running and returned nil, the client holds no open
\* connection
C20_CloseDuringDial ==
    closeCount > 0 /\ closeAt = "running" /\ closeRet = Nil
        => conn = Nil \/ connClosed

====
